---- MODULE Spec2Model ----
(***************************************************************************)
(* Retrieval-and-rerank pipeline (lib/ai/embedding.ts), chunk ingestion    *)
(* (lib/actions/resources.ts) and the chat tool-orchestration loop         *)
(* (app/api/chat/route.ts) of the movie-chat RAG assistant.                *)
(*                                                                         *)
(* Text is a sequence of characters over a two-letter alphabet (a blank    *)
(* and a letter); the fixed sentences of the handlers are one-symbol       *)
(* sequences.  An absent (undefined/null) text is the sequence NoText, an  *)
(* absent number is <<>> and a present number n is <<n>>.  An embedding    *)
(* vector is a point on a line, the distance of two vectors is the         *)
(* absolute difference.                                                    *)
(***************************************************************************)
EXTENDS Integers, Sequences, FiniteSets, TLC

\* ---------------------------------------------------------------- bounds
MaxTextLen == 2
MaxChunks == 2
MaxLimit == 2
MaxRerankResults == 2
MaxCalls == 2
MaxRequestLimit == 51

\* ------------------------------------------------------ program constants
DEFAULT_LIMIT == 5
FIRST_STAGE_MULTIPLIER == 5
FIRST_STAGE_MAX == 50
MAX_STEPS == 3

\* ------------------------------------------------------------------ text
Chars == {" ", "a"}
NoText == <<"<undefined>">>
Texts == UNION {[1..n -> Chars] : n \in 0..MaxTextLen}

Min(a, b) == IF a < b THEN a ELSE b
Max(a, b) == IF a > b THEN a ELSE b
Abs(a) == IF a < 0 THEN -a ELSE a

RECURSIVE TrimStart(_)
TrimStart(s) ==
  IF s # <<>> /\ Head(s) = " " THEN TrimStart(Tail(s)) ELSE s

RECURSIVE TrimEnd(_)
TrimEnd(s) ==
  IF s # <<>> /\ s[Len(s)] = " " THEN TrimEnd(SubSeq(s, 1, Len(s) - 1)) ELSE s

\* String.prototype.trim
TrimNone(s) == s
Trim(s) == TrimEnd(TrimStart(s))

\* Array.prototype.slice(0, n)
Slice(s, n) == SubSeq(s, 1, Min(n, Len(s)))

\* optional numbers
NoNum == <<>>
Num(n) == <<n>>
\* x ?? 0
OrZero(x) == IF x = NoNum THEN 0 ELSE x[1]

\* ------------------------------------------------------------- retriever
\* what the embeddings API can do: fail, answer without data[0].embedding,
\* answer with a zero-length vector, or answer with a vector
Vectors == {0, 1}
EmbedOutcomes ==
  {[kind |-> k, v |-> 0] : k \in {"throw", "none", "empty"}}
    \cup {[kind |-> "vec", v |-> x] : x \in Vectors}

\* e.embedding <-> query
Distance(v, q) == Abs(v - q)

\* the rows of resources no row of embeddings references
Unembedded(res, embs) == {r \in res : \A e \in embs : e.resourceId # r.id}

\* FROM embeddings e INNER JOIN resources r ON r.id = e.resource_id
JoinedRowsOuter(res, embs, q) ==
  {[id |-> r.id, content |-> r.content, distance |-> Distance(e.embedding, q)] :
     <<e, r>> \in {x \in embs \X res : x[2].id = x[1].resourceId}}
    \cup {[id |-> r.id, content |-> r.content, distance |-> 0] : r \in Unembedded(res, embs)}

JoinedRows(res, embs, q) ==
  {[id |-> r.id, content |-> r.content, distance |-> Distance(e.embedding, q)] :
     <<e, r>> \in {x \in embs \X res : x[2].id = x[1].resourceId}}

IsAscending(s) ==
  \A i \in 1..Len(s) : \A j \in 1..Len(s) : i < j => s[i].distance <= s[j].distance

\* ORDER BY distance ASC: every order of the joined rows with ascending
\* distance (rows at equal distance come in any order)
OrderedRows(res, embs, q) ==
  LET J == JoinedRows(res, embs, q)
      n == Cardinality(J)
  IN {s \in [1..n -> J] : (\A i \in 1..n : \A j \in 1..n : s[i] = s[j] => i = j)
                           /\ IsAscending(s)}

\* the first-stage SELECT ... LIMIT k
FirstStageQuery(res, embs, q, k) ==
  {Slice(s, k) : s \in OrderedRows(res, embs, q)}

firstStageLimitUncapped(limit) == Max(limit * FIRST_STAGE_MULTIPLIER, limit)
firstStageLimit(limit) ==
  Min(Max(limit * FIRST_STAGE_MULTIPLIER, limit), FIRST_STAGE_MAX)

\* rows.map(row => ({id, content, createdAt, distance}))
baseResultsOf(rows) ==
  [i \in 1..Len(rows) |->
     [id |-> rows[i].id, content |-> rows[i].content,
      distance |-> rows[i].distance, rerankScore |-> NoNum]]

\* baseMap.get(String(id)): Map.set keeps the last candidate of an id
HasBase(id, candidates) == \E i \in 1..Len(candidates) : candidates[i].id = id
BaseOf(id, candidates) ==
  LET last == CHOOSE i \in 1..Len(candidates) :
                /\ candidates[i].id = id
                /\ \A j \in 1..Len(candidates) : candidates[j].id = id => j <= i
  IN candidates[last]

\* merged.push({...base, content, distance, rerankScore})
mergeItemNoDefault(item, base) ==
  [id |-> base.id,
   content |-> item.content,
   distance |-> IF item.distance = NoNum THEN base.distance ELSE item.distance[1],
   rerankScore |-> IF item.rerank_score = NoNum THEN base.rerankScore
                   ELSE item.rerank_score]

mergeItem(item, base) ==
  [id |-> base.id,
   content |-> IF item.content = NoText THEN base.content ELSE item.content,
   distance |-> IF item.distance = NoNum THEN base.distance ELSE item.distance[1],
   rerankScore |-> IF item.rerank_score = NoNum THEN base.rerankScore
                   ELSE item.rerank_score]

\* the loop over data.results
RECURSIVE merged(_, _)
merged(results, candidates) ==
  IF results = <<>> THEN <<>>
  ELSE LET item == Head(results)
           rest == merged(Tail(results), candidates)
       IN IF HasBase(item.id, candidates)
          THEN <<mergeItem(item, BaseOf(item.id, candidates))>> \o rest
          ELSE rest

\* merged.sort((a, b) => (b.rerankScore ?? 0) - (a.rerankScore ?? 0)); the
\* sort is stable: an element goes behind every element that does not rank
\* strictly below it
InsertByScore(x, s) ==
  LET keep == {i \in 0..Len(s) :
                 \A j \in 1..i : OrZero(s[j].rerankScore) >= OrZero(x.rerankScore)}
      k == CHOOSE i \in keep : \A j \in keep : j <= i
  IN SubSeq(s, 1, k) \o <<x>> \o SubSeq(s, k + 1, Len(s))

sortNone(s) == s
RECURSIVE sortByRerankScore(_)
sortByRerankScore(s) ==
  IF s = <<>> THEN <<>>
  ELSE InsertByScore(s[Len(s)], sortByRerankScore(SubSeq(s, 1, Len(s) - 1)))

\* The reranker as seen by callReranker: no URL configured, a URL that does
\* not parse, a fetch that throws, a non-2xx answer, a body that is not
\* JSON, a body without a results array, or a results array.
RerankFailures == {"unconfigured", "badurl", "unreachable", "notok", "badjson", "noarray"}
RevisedContent == <<"z">>
RerankScores == {NoNum, Num(-1), Num(1)}
RerankItem(i, c, d, sc) == [id |-> i, content |-> c, distance |-> d, rerank_score |-> sc]
\* ids 1..MaxChunks can be ids of stored chunks, the serial never yields 0
RerankItems ==
  {RerankItem(i, NoText, NoNum, sc) : i \in 0..MaxChunks, sc \in RerankScores}
    \cup {RerankItem(1, RevisedContent, NoNum, Num(1)),
          RerankItem(1, NoText, Num(7), Num(1))}
RerankLists(n) == UNION {[1..k -> RerankItems] : k \in 0..n}
RerankOutcomes(n) ==
  {[kind |-> k, results |-> <<>>] : k \in RerankFailures}
    \cup {[kind |-> "results", results |-> l] : l \in RerankLists(n)}

\* the behaviours explored under the chat handler and under the retriever
\* route: one per class
ChatEmbedOutcomes == {e \in EmbedOutcomes : e.kind # "empty" /\ e.v = 0}
ChatRerankOutcomes ==
  {[kind |-> k, results |-> <<>>] : k \in {"unconfigured", "unreachable"}}
    \cup {[kind |-> "results", results |-> <<RerankItem(1, NoText, NoNum, Num(1))>>]}

\* under the retriever route: no reranker, or one that names every id a
\* chunk can have
RouteRerankOutcomes ==
  {[kind |-> "unconfigured", results |-> <<>>],
   [kind |-> "results",
    results |-> [i \in 1..MaxChunks |-> RerankItem(i, NoText, NoNum, Num(1))]]}

\* callReranker: null is [isNull |-> TRUE]; fetched tells whether the POST
\* was sent, threw whether the call ended with an exception (it catches all)
RerankReturn(isNull, list, fetched) ==
  [isNull |-> isNull, list |-> list, fetched |-> fetched, threw |-> FALSE]

callRerankerNoSlice(query, candidates, limit, rr) ==
  IF candidates = <<>> THEN RerankReturn(FALSE, <<>>, FALSE)
  ELSE IF rr.kind \in {"unconfigured", "badurl"} THEN RerankReturn(TRUE, <<>>, FALSE)
  ELSE IF rr.kind \in {"unreachable", "notok", "badjson", "noarray"}
    THEN RerankReturn(TRUE, <<>>, TRUE)
  ELSE LET m == merged(rr.results, candidates)
       IN IF m = <<>> THEN RerankReturn(TRUE, <<>>, TRUE)
          ELSE RerankReturn(FALSE, sortByRerankScore(m), TRUE)

callRerankerNoCatch(query, candidates, limit, rr) ==
  IF candidates = <<>> THEN RerankReturn(FALSE, <<>>, FALSE)
  ELSE IF rr.kind \in {"unconfigured", "badurl"} THEN RerankReturn(TRUE, <<>>, FALSE)
  ELSE IF rr.kind \in {"unreachable", "badjson"}
    THEN [isNull |-> TRUE, list |-> <<>>, fetched |-> TRUE, threw |-> TRUE]
  ELSE IF rr.kind \in {"notok", "noarray"} THEN RerankReturn(TRUE, <<>>, TRUE)
  ELSE LET m == merged(rr.results, candidates)
       IN IF m = <<>> THEN RerankReturn(TRUE, <<>>, TRUE)
          ELSE RerankReturn(FALSE, Slice(sortByRerankScore(m), limit), TRUE)

callReranker(query, candidates, limit, rr) ==
  IF candidates = <<>> THEN RerankReturn(FALSE, <<>>, FALSE)
  ELSE IF rr.kind \in {"unconfigured", "badurl"} THEN RerankReturn(TRUE, <<>>, FALSE)
  ELSE IF rr.kind \in {"unreachable", "notok", "badjson", "noarray"}
    THEN RerankReturn(TRUE, <<>>, TRUE)
  ELSE LET m == merged(rr.results, candidates)
       IN IF m = <<>> THEN RerankReturn(TRUE, <<>>, TRUE)
          ELSE RerankReturn(FALSE, Slice(sortByRerankScore(m), limit), TRUE)

\* what the first-stage query can do: throw, or return rows
QueryOutcomes(res, embs, q, k) ==
  {[kind |-> "throw", rows |-> <<>>]}
    \cup {[kind |-> "rows", rows |-> s] : s \in FirstStageQuery(res, embs, q, k)}

EmbedderError == <<"embeddings request failed">>
StoreError == <<"database error">>
NoQueryEmbedding == <<"Failed to generate embedding for query">>
RerankerError == <<"fetch failed">>
NoError == <<>>

\* ------------------------------------------------------------------ state
VARIABLES
  resources,   \* rows of table resources: [id, content]
  embeddings,  \* rows of table embeddings: [resourceId, embedding]
  nextId,      \* the serial of resources.id
  pc,          \* per handler: where it stands
  task,        \* per handler: "none", "chat", "upload", "find" or "retrieve"
  ing,         \* per handler: locals of the createResourceRaw call in progress
  ret,         \* per handler: the findRelevantContent call made directly
  step,        \* chat: loop counter
  toolUsed,    \* chat: the flag
  messages,    \* chat: the conversation sent to the model
  calls,       \* chat: msg.tool_calls of the accepted response
  callIdx,     \* chat: position of the for-of loop in calls
  response,    \* per handler: the HTTP response, once there is one
  log          \* chat: what the request did so far (observation only)

storeVars == <<resources, embeddings, nextId>>
chatVars == <<step, toolUsed, messages, calls, callIdx, log>>
vars == <<resources, embeddings, nextId, pc, task, ing, ret, step, toolUsed,
          messages, calls, callIdx, response, log>>

\* the requests in progress: handler 1 serves one request after the other,
\* handler 2 serves requests that overlap with those of handler 1
Procs == {1, 2}
Sequential == {1}
Ingesters == {1}
Retrievers == {2}

NoResponse == [status |-> 0, body |-> <<>>]
Respond(st, b) == [status |-> st, body |-> b]

NoIng == [content |-> NoText, vector |-> 0, resourceId |-> 0, chunks |-> <<>>,
          embedded |-> "none yet"]
NoRet == [question |-> <<>>, limit |-> 0, vector |-> 0, base |-> <<>>,
          rr |-> [kind |-> "none", results |-> <<>>],
          returned |-> FALSE, threw |-> FALSE, error |-> NoError, out |-> <<>>,
          embedCalls |-> 0, queryCalls |-> 0, rerankCalls |-> 0, orphans |-> {},
          requested |-> 0, silent |-> FALSE, embedded |-> "none yet"]
NoLast == [kind |-> "none", content |-> NoText, tools |-> FALSE, toolUsed |-> FALSE]
NoLog == [modelCalls |-> 0, toolResponses |-> {}, execSteps |-> {},
          finds |-> 0, creates |-> 0, dispatched |-> 0, saved |-> 0, savedId |-> 0,
          callsAtSave |-> 0, idxAtSave |-> 0, toolChoices |-> <<>>, last |-> NoLast,
          thrown |-> <<>>, sent |-> 0, input |-> "none", order |-> <<>>,
          history |-> <<>>]

Init ==
  /\ resources = {}
  /\ embeddings = {}
  /\ nextId = 1
  /\ pc = [p \in Procs |-> "idle"]
  /\ task = [p \in Procs |-> "none"]
  /\ ing = [p \in Procs |-> NoIng]
  /\ ret = [p \in Procs |-> NoRet]
  /\ step = [p \in Procs |-> 0]
  /\ toolUsed = [p \in Procs |-> FALSE]
  /\ messages = [p \in Procs |-> <<>>]
  /\ calls = [p \in Procs |-> <<>>]
  /\ callIdx = [p \in Procs |-> 0]
  /\ response = [p \in Procs |-> NoResponse]
  /\ log = [p \in Procs |-> NoLog]

\* a handler returned its response; the next request starts from scratch
Reset(p) ==
  /\ pc[p] = "done"
  /\ pc' = [pc EXCEPT ![p] = "idle"]
  /\ task' = [task EXCEPT ![p] = "none"]
  /\ ing' = [ing EXCEPT ![p] = NoIng]
  /\ ret' = [ret EXCEPT ![p] = NoRet]
  /\ step' = [step EXCEPT ![p] = 0]
  /\ toolUsed' = [toolUsed EXCEPT ![p] = FALSE]
  /\ messages' = [messages EXCEPT ![p] = <<>>]
  /\ calls' = [calls EXCEPT ![p] = <<>>]
  /\ callIdx' = [callIdx EXCEPT ![p] = 0]
  /\ response' = [response EXCEPT ![p] = NoResponse]
  /\ log' = [log EXCEPT ![p] = NoLog]
  /\ UNCHANGED storeVars

\* the external behaviours a handler explores
EmbedDomain(p) ==
  IF task[p] \in {"chat", "retrieve"} THEN ChatEmbedOutcomes ELSE EmbedOutcomes
RerankDomain(p) ==
  CASE task[p] = "chat" -> ChatRerankOutcomes
    [] task[p] = "retrieve" -> RouteRerankOutcomes
    [] OTHER -> RerankOutcomes(MaxRerankResults)

\* -------------------------------------------------------------- ingestion
ContentRequired == <<"Content is required to create a resource">>
NoResourceEmbedding == <<"Failed to generate embedding for resource">>
InsertFailed == <<"Failed to insert resource">>
TypeErrorMsg == <<"Cannot read properties of undefined (reading 'trim')">>
SyntaxErrorMsg == <<"Unexpected token in JSON">>

\* the tool result of a dispatched call and its JSON.stringify
ToolOk(chunks) == [ok |-> TRUE, chunks |-> chunks, error |-> NoError]
ToolError(msg) == [ok |-> FALSE, chunks |-> <<>>, error |-> msg]
Stringify(result) == <<"{", result, "}">>

SavedText == <<"Saved.">>
ExhaustedText == <<"Unable to produce a final answer.">>
RefusalText == <<"Unable to provide additional tool output at this time.">>
ModelFailureText == <<"I'm sorry, I'm temporarily unable to answer your request.">>
CannedText == <<"I'm sorry, but I don't have the necessary information to answer that.">>

ToolMessage(id, result) ==
  [role |-> "tool", content |-> Stringify(result), tool_calls |-> <<>>,
   tool_call_id |-> id]

\* chat, end of one pass of the for-of loop over msg.tool_calls: the tool
\* message is pushed; after the last call the step counter advances and the
\* for loop either calls the model again or falls through to the final return
PushFirstToolResultOnly(p, result) ==
  /\ messages' = [messages EXCEPT ![p] =
                    Append(@, ToolMessage(calls[p][callIdx[p]].id, result))]
  /\ callIdx' = [callIdx EXCEPT ![p] = 0]
  /\ step' = [step EXCEPT ![p] = @ + 1]
  /\ IF step[p] + 1 < MAX_STEPS
       THEN /\ pc' = [pc EXCEPT ![p] = "model"]
            /\ UNCHANGED response
       ELSE /\ pc' = [pc EXCEPT ![p] = "done"]
            /\ response' = [response EXCEPT ![p] = Respond(200, ExhaustedText)]
  /\ UNCHANGED <<toolUsed, calls>>

PushToolResultFirstId(p, result) ==
  /\ messages' = [messages EXCEPT ![p] =
                    Append(@, ToolMessage(calls[p][1].id, result))]
  /\ IF callIdx[p] < Len(calls[p])
       THEN /\ callIdx' = [callIdx EXCEPT ![p] = @ + 1]
            /\ pc' = [pc EXCEPT ![p] = "dispatch"]
            /\ UNCHANGED <<step, response>>
       ELSE /\ callIdx' = [callIdx EXCEPT ![p] = 0]
            /\ step' = [step EXCEPT ![p] = @ + 1]
            /\ IF step[p] + 1 < MAX_STEPS
                 THEN /\ pc' = [pc EXCEPT ![p] = "model"]
                      /\ UNCHANGED response
                 ELSE /\ pc' = [pc EXCEPT ![p] = "done"]
                      /\ response' = [response EXCEPT ![p] = Respond(200, ExhaustedText)]
  /\ UNCHANGED <<toolUsed, calls>>

PushToolResult(p, result) ==
  /\ messages' = [messages EXCEPT ![p] =
                    Append(@, ToolMessage(calls[p][callIdx[p]].id, result))]
  /\ IF callIdx[p] < Len(calls[p])
       THEN /\ callIdx' = [callIdx EXCEPT ![p] = @ + 1]
            /\ pc' = [pc EXCEPT ![p] = "dispatch"]
            /\ UNCHANGED <<step, response>>
       ELSE /\ callIdx' = [callIdx EXCEPT ![p] = 0]
            /\ step' = [step EXCEPT ![p] = @ + 1]
            /\ IF step[p] + 1 < MAX_STEPS
                 THEN /\ pc' = [pc EXCEPT ![p] = "model"]
                      /\ UNCHANGED response
                 ELSE /\ pc' = [pc EXCEPT ![p] = "done"]
                      /\ response' = [response EXCEPT ![p] = Respond(200, ExhaustedText)]
  /\ UNCHANGED <<toolUsed, calls>>

\* the inner catch of the chat handler: the exception of the call at hand
\* is caught, log[p].thrown notes the call and the error's message
Caught(p, msg) ==
  [log[p] EXCEPT !.thrown = Append(@, [id |-> calls[p][callIdx[p]].id, msg |-> msg])]

\* createResourceRaw threw: the chat handler's inner catch turns it into a
\* tool result, the upload handler's catch into a 500
CreateThrowsToOuterCatch(p, msg) ==
  /\ ing' = [ing EXCEPT ![p] = NoIng]
  /\ IF task[p] = "chat"
       THEN /\ pc' = [pc EXCEPT ![p] = "done"]
            /\ response' = [response EXCEPT ![p] = Respond(200, ModelFailureText)]
            /\ log' = [log EXCEPT ![p] = Caught(p, msg)]
            /\ UNCHANGED <<step, toolUsed, messages, calls, callIdx>>
       ELSE /\ pc' = [pc EXCEPT ![p] = "done"]
            /\ response' = [response EXCEPT ![p] = Respond(500, msg)]
            /\ UNCHANGED chatVars

CreateThrows(p, msg) ==
  /\ ing' = [ing EXCEPT ![p] = NoIng]
  /\ IF task[p] = "chat"
       THEN PushToolResult(p, ToolError(msg)) /\ log' = [log EXCEPT ![p] = Caught(p, msg)]
       ELSE /\ pc' = [pc EXCEPT ![p] = "done"]
            /\ response' = [response EXCEPT ![p] = Respond(500, msg)]
            /\ UNCHANGED chatVars

\* createResourceRaw returned the inserted resource: the chat handler
\* answers "Saved."; createResourceFromChunks goes on with the next chunk
CreateReturnsAndGoesOn(p) ==
  /\ ing' = [ing EXCEPT ![p] = NoIng]
  /\ IF task[p] = "chat"
       THEN /\ PushToolResult(p, ToolOk(<<>>))
            /\ log' = [log EXCEPT ![p].saved = @ + 1, ![p].savedId = ing[p].resourceId,
                                  ![p].callsAtSave = log[p].modelCalls,
                                  ![p].idxAtSave = log[p].dispatched]
       ELSE /\ pc' = [pc EXCEPT ![p] = "done"]
            /\ response' = [response EXCEPT ![p] = Respond(200, <<"ok">>)]
            /\ UNCHANGED chatVars

CreateReturns(p) ==
  IF task[p] = "chat"
    THEN /\ pc' = [pc EXCEPT ![p] = "done"]
         /\ response' = [response EXCEPT ![p] = Respond(200, SavedText)]
         /\ ing' = [ing EXCEPT ![p] = NoIng]
         /\ log' = [log EXCEPT ![p].saved = @ + 1, ![p].savedId = ing[p].resourceId,
                               ![p].callsAtSave = log[p].modelCalls,
                               ![p].idxAtSave = log[p].dispatched]
         /\ UNCHANGED <<step, toolUsed, messages, calls, callIdx>>
    ELSE /\ IF ing[p].chunks = <<>>
              THEN /\ pc' = [pc EXCEPT ![p] = "done"]
                   /\ response' = [response EXCEPT ![p] = Respond(200, <<"ok">>)]
                   /\ ing' = [ing EXCEPT ![p] = NoIng]
              ELSE /\ pc' = [pc EXCEPT ![p] = "embed"]
                   /\ ing' = [ing EXCEPT ![p] =
                                [NoIng EXCEPT !.content = Head(ing[p].chunks),
                                              !.chunks = Tail(ing[p].chunks)]]
                   /\ UNCHANGED response
         /\ UNCHANGED chatVars

\* createResourceRaw up to the answer of the embeddings API
CreateEmbedPersistFirst(p) ==
  /\ pc[p] = "embed"
  /\ UNCHANGED <<embeddings, task, ret>>
  /\ IF ing[p].content = NoText
       THEN CreateThrows(p, TypeErrorMsg) /\ UNCHANGED <<resources, nextId>>
     ELSE IF Trim(ing[p].content) = <<>>
       THEN CreateThrows(p, ContentRequired) /\ UNCHANGED <<resources, nextId>>
     ELSE \E emb \in EmbedDomain(p) :
            IF emb.kind \in {"throw", "none", "empty"}
              THEN /\ Cardinality(resources) < MaxChunks
                   /\ resources' = resources \cup
                                     {[id |-> nextId, content |-> Trim(ing[p].content)]}
                   /\ nextId' = nextId + 1
                   /\ CreateThrows(p, IF emb.kind = "throw" THEN EmbedderError
                                      ELSE NoResourceEmbedding)
              ELSE /\ ing' = [ing EXCEPT ![p].content = Trim(ing[p].content),
                                         ![p].vector = emb.v,
                                         ![p].embedded = emb.kind]
                   /\ pc' = [pc EXCEPT ![p] = "insertResource"]
                   /\ UNCHANGED <<resources, nextId, chatVars, response>>

CreateEmbed(p) ==
  /\ pc[p] = "embed"
  /\ UNCHANGED <<storeVars, task, ret>>
  /\ IF ing[p].content = NoText THEN CreateThrows(p, TypeErrorMsg)
     ELSE IF Trim(ing[p].content) = <<>> THEN CreateThrows(p, ContentRequired)
     ELSE \E emb \in EmbedDomain(p) :
            CASE emb.kind = "throw" -> CreateThrows(p, EmbedderError)
              [] emb.kind \in {"none", "empty"} -> CreateThrows(p, NoResourceEmbedding)
              [] OTHER ->
                   /\ ing' = [ing EXCEPT ![p].content = Trim(ing[p].content),
                                         ![p].vector = emb.v,
                                         ![p].embedded = emb.kind]
                   /\ pc' = [pc EXCEPT ![p] = "insertResource"]
                   /\ UNCHANGED <<chatVars, response>>

\* db.insert(resources).values({content: trimmed}).returning(...)
InsertResource(p) ==
  /\ pc[p] = "insertResource"
  /\ UNCHANGED <<embeddings, task, ret>>
  /\ \/ /\ Cardinality(resources) < MaxChunks
        /\ resources' = resources \cup {[id |-> nextId, content |-> ing[p].content]}
        /\ nextId' = nextId + 1
        /\ ing' = [ing EXCEPT ![p].resourceId = nextId]
        /\ pc' = [pc EXCEPT ![p] = "insertEmbedding"]
        /\ UNCHANGED <<chatVars, response>>
     \/ /\ UNCHANGED <<resources, nextId>>
        /\ \E msg \in {StoreError, InsertFailed} : CreateThrows(p, msg)

\* db.insert(embeddings).values({resourceId, embedding})
InsertEmbeddingSkipped(p) ==
  /\ pc[p] = "insertEmbedding"
  /\ UNCHANGED <<resources, nextId, task, ret>>
  /\ \/ /\ UNCHANGED embeddings
        /\ CreateReturns(p)
     \/ /\ UNCHANGED embeddings
        /\ CreateThrows(p, StoreError)

InsertEmbedding(p) ==
  /\ pc[p] = "insertEmbedding"
  /\ UNCHANGED <<resources, nextId, task, ret>>
  /\ \/ /\ embeddings' = embeddings \cup
                            {[resourceId |-> ing[p].resourceId, embedding |-> ing[p].vector]}
        /\ CreateReturns(p)
     \/ /\ UNCHANGED embeddings
        /\ CreateThrows(p, StoreError)

\* --------------------------------------------------------------- retriever
\* the retriever route's answers
RetrieverFailed == <<"Retriever query failed">>
QuestionRequired == <<"question is required">>
LimitInvalid == <<"limit must be a positive number">>
\* chunks.map(chunk => ({id, content, distance, rerankScore, metadata}))
resultsOf(chunks) ==
  [i \in 1..Len(chunks) |->
     [id |-> chunks[i].id, content |-> chunks[i].content,
      distance |-> chunks[i].distance, rerankScore |-> chunks[i].rerankScore,
      chunk_index |-> chunks[i].id]]

\* findRelevantContent threw: the chat handler's inner catch turns it into
\* a tool result, the retriever route's catch into a 500; a direct caller
\* sees the exception
FindThrows(p, r, msg) ==
  IF task[p] = "chat"
    THEN /\ ret' = [ret EXCEPT ![p] = NoRet]
         /\ PushToolResult(p, ToolError(msg))
         /\ log' = [log EXCEPT ![p] = Caught(p, msg)]
    ELSE /\ ret' = [ret EXCEPT ![p] = [r EXCEPT !.threw = TRUE, !.error = msg]]
         /\ pc' = [pc EXCEPT ![p] = "done"]
         /\ response' = IF task[p] = "retrieve"
                          THEN [response EXCEPT ![p] = Respond(500, RetrieverFailed)]
                          ELSE response
         /\ UNCHANGED chatVars

\* findRelevantContent returned out
FindReturns(p, r, out) ==
  IF task[p] = "chat"
    THEN /\ ret' = [ret EXCEPT ![p] = NoRet]
         /\ PushToolResult(p, ToolOk(out))
         /\ UNCHANGED log
    ELSE /\ ret' = [ret EXCEPT ![p] = [r EXCEPT !.returned = TRUE, !.out = out]]
         /\ pc' = [pc EXCEPT ![p] = "done"]
         /\ response' = IF task[p] = "retrieve"
                          THEN [response EXCEPT ![p] = Respond(200, Stringify(resultsOf(out)))]
                          ELSE response
         /\ UNCHANGED chatVars

\* findRelevantContent(question, {limit}) up to its first await; from here
\* on only the trimmed prompt is read.  A question that is not a string
\* has no trim method.
FindEnter(p) ==
  /\ pc[p] = "find"
  /\ UNCHANGED <<storeVars, task, ing>>
  /\ IF ret[p].question = NoText THEN FindThrows(p, ret[p], TypeErrorMsg)
     ELSE IF Trim(ret[p].question) = <<>> THEN FindReturns(p, ret[p], <<>>)
     ELSE /\ ret' = [ret EXCEPT ![p].question = Trim(ret[p].question)]
          /\ pc' = [pc EXCEPT ![p] = "findEmbed"]
          /\ UNCHANGED <<chatVars, response>>

\* if (!embeddingVector || embeddingVector.length === 0)
NoVectorLengthUnchecked(emb) == emb.kind = "none"
NoVector(emb) == emb.kind \in {"none", "empty"}

\* openai.embeddings.create answers
FindEmbed(p) ==
  /\ pc[p] = "findEmbed"
  /\ UNCHANGED <<storeVars, task, ing>>
  /\ \E emb \in EmbedDomain(p) :
     LET r == [ret[p] EXCEPT !.embedCalls = @ + 1, !.embedded = emb.kind] IN
       CASE emb.kind = "throw" -> FindThrows(p, r, EmbedderError)
         [] NoVector(emb) -> FindThrows(p, r, NoQueryEmbedding)
         [] OTHER ->
              /\ ret' = [ret EXCEPT ![p] = [r EXCEPT !.vector = emb.v]]
              /\ pc' = [pc EXCEPT ![p] = "findQuery"]
              /\ UNCHANGED <<chatVars, response>>

\* if (rows.length === 0)
NoRowsNever(rows) == FALSE
NoRows(rows) == Len(rows) = 0

\* the first-stage SELECT answers
FindQuery(p) ==
  /\ pc[p] = "findQuery"
  /\ UNCHANGED <<storeVars, task, ing>>
  /\ LET r == [ret[p] EXCEPT !.queryCalls = @ + 1,
                                !.orphans = {x.id : x \in Unembedded(resources, embeddings)},
                                !.requested = firstStageLimit(ret[p].limit)] IN
     \E qo \in QueryOutcomes(resources, embeddings, r.vector, r.requested) :
       CASE qo.kind = "throw" -> FindThrows(p, r, StoreError)
         [] qo.kind = "rows" /\ NoRows(qo.rows) -> FindReturns(p, r, <<>>)
         [] OTHER ->
              /\ ret' = [ret EXCEPT ![p] = [r EXCEPT !.base = baseResultsOf(qo.rows)]]
              /\ pc' = [pc EXCEPT ![p] = "findRerank"]
              /\ UNCHANGED <<chatVars, response>>

\* callReranker answers and findRelevantContent returns
FindRerank(p) ==
  /\ pc[p] = "findRerank"
  /\ UNCHANGED <<storeVars, task, ing>>
  /\ \E rr \in RerankDomain(p) :
       LET reranked == callReranker(ret[p].question, ret[p].base, ret[p].limit, rr)
           r == [ret[p] EXCEPT !.rr = rr,
                               !.rerankCalls = IF reranked.fetched THEN 1 ELSE 0]
       IN IF reranked.threw THEN FindThrows(p, r, RerankerError)
          ELSE IF ~reranked.isNull /\ Len(reranked.list) > 0
            THEN FindReturns(p, r, reranked.list)
            ELSE FindReturns(p, r, Slice(r.base, r.limit))

\* the collaborator of the await at hand (embeddings API, store, reranker)
\* never answers: the awaits of findRelevantContent and callReranker carry
\* no timer and no abort signal, the call stays where it is
CollaboratorSilent(p) ==
  /\ pc[p] \in {"findEmbed", "findQuery", "findRerank"}
  /\ pc' = [pc EXCEPT ![p] = "waiting"]
  /\ ret' = [ret EXCEPT ![p].silent = TRUE]
  /\ UNCHANGED <<storeVars, task, ing, chatVars, response>>

\* a direct call findRelevantContent(question, {limit})
Limits == 1..MaxLimit
FindCall(p) ==
  /\ pc[p] = "idle"
  /\ task' = [task EXCEPT ![p] = "find"]
  /\ pc' = [pc EXCEPT ![p] = "find"]
  /\ \E question \in Texts, limit \in Limits :
       ret' = [ret EXCEPT ![p] = [NoRet EXCEPT !.question = question, !.limit = limit]]
  /\ UNCHANGED <<storeVars, ing, chatVars, response>>

\* the body is not JSON, has no non-empty chunks array, or has one
UploadBodies ==
  {[kind |-> k, chunks |-> <<>>] : k \in {"badjson", "nochunks"}}
    \cup {[kind |-> "chunks", chunks |-> c] :
            c \in UNION {[1..n -> Texts] : n \in 1..MaxChunks}}

\* the bodies explored for a request that overlaps with another one
OverlapUploadBodies ==
  {b \in UploadBodies : b.kind = "chunks" /\ b.chunks \in {<<<<"a">>>>, <<<<"a", " ">>>>}}

\* POST /api/upload-chunks: createResourceFromChunks(body.chunks)
UploadFrom(p, bodies) ==
  /\ pc[p] = "idle"
  /\ task' = [task EXCEPT ![p] = "upload"]
  /\ UNCHANGED <<storeVars, ret, chatVars>>
  /\ \E body \in bodies :
       CASE body.kind = "badjson" ->
              /\ pc' = [pc EXCEPT ![p] = "done"]
              /\ response' = [response EXCEPT ![p] = Respond(500, SyntaxErrorMsg)]
              /\ UNCHANGED ing
         [] body.kind = "nochunks" ->
              /\ pc' = [pc EXCEPT ![p] = "done"]
              /\ response' = [response EXCEPT ![p] =
                                Respond(400, <<"Provide non-empty \"chunks\" array">>)]
              /\ UNCHANGED ing
         [] OTHER ->
              /\ pc' = [pc EXCEPT ![p] = "embed"]
              /\ ing' = [ing EXCEPT ![p] =
                           [NoIng EXCEPT !.content = Head(body.chunks),
                                         !.chunks = Tail(body.chunks)]]
              /\ UNCHANGED response

UploadStart(p) == UploadFrom(p, UploadBodies)
UploadOverlapping(p) == UploadFrom(p, OverlapUploadBodies)

\* POST /api/rag_level/retriever: the payload's question (NoText when the
\* body is not JSON or has no string question) and limit (absent, or a number)
RetrievePayloads ==
  {[question |-> q, limit |-> l] :
     q \in {NoText, <<" ">>, <<"a", " ">>},
     l \in {NoNum, Num(0)} \cup {Num(n) : n \in 1..MaxRequestLimit}}

RetrieveStart(p) ==
  /\ pc[p] = "idle"
  /\ task' = [task EXCEPT ![p] = "retrieve"]
  /\ UNCHANGED <<storeVars, ing, chatVars>>
  /\ \E payload \in RetrievePayloads :
       LET question == IF payload.question = NoText THEN <<>> ELSE Trim(payload.question)
           limit == IF payload.limit = NoNum THEN DEFAULT_LIMIT ELSE payload.limit[1]
       IN IF question = <<>>
            THEN /\ pc' = [pc EXCEPT ![p] = "done"]
                 /\ response' = [response EXCEPT ![p] = Respond(400, QuestionRequired)]
                 /\ UNCHANGED ret
          ELSE IF limit <= 0
            THEN /\ pc' = [pc EXCEPT ![p] = "done"]
                 /\ response' = [response EXCEPT ![p] = Respond(400, LimitInvalid)]
                 /\ UNCHANGED ret
          ELSE /\ pc' = [pc EXCEPT ![p] = "find"]
               /\ ret' = [ret EXCEPT ![p] = [NoRet EXCEPT !.question = question,
                                                          !.limit = limit]]
               /\ UNCHANGED response

\* ------------------------------------------------------------ chat handler
SYSTEM_PROMPT == <<"You are a domain-specialized Film Research Assistant.">>

Message(role, content) ==
  [role |-> role, content |-> content, tool_calls |-> <<>>, tool_call_id |-> 0]

\* parts.filter(type = "text" and text is a string).map(text).join("\n")
RECURSIVE JoinText(_)
JoinText(parts) ==
  IF parts = <<>> THEN <<>>
  ELSE LET part == Head(parts)
           rest == JoinText(Tail(parts))
           more == \E i \in 2..Len(parts) : parts[i].type = "text" /\ parts[i].text # NoText
       IN IF part.type = "text" /\ part.text # NoText
            THEN part.text \o (IF more THEN <<"\n">> ELSE <<>>) \o rest
            ELSE rest

\* rawMessages.map(m => ({role: m.role ?? "user", content}))
historyOf(raw) ==
  [i \in 1..Len(raw) |->
     Message(IF raw[i].role = "" THEN "user" ELSE raw[i].role, JoinText(raw[i].parts))]

Part(type, text) == [type |-> type, text |-> text]
\* the histories explored: one whose last message has text, and one whose
\* only message, the user's, has no text part
RawMessages ==
  {<<[role |-> "assistant", parts |-> <<>>],
     [role |-> "", parts |-> <<Part("text", <<"a">>), Part("image", NoText),
                               Part("text", <<" ">>)>>]>>,
   <<[role |-> "user", parts |-> <<Part("image", NoText)>>]>>}
\* the request body: not JSON, no (or an empty) messages array, or messages
ChatBodies ==
  {[kind |-> k, messages |-> <<>>] : k \in {"badjson", "nomessages"}}
    \cup {[kind |-> "messages", messages |-> m] : m \in RawMessages}

\* the tool calls a model response can carry: a known or an unknown name,
\* arguments that do not parse, that lack the field, or that carry a text
ToolNames == {"addResource", "getInformation"}
ArgTexts == {<<" ">>, <<" ", "a">>}
ToolArgs ==
  {[kind |-> k, text |-> NoText] : k \in {"malformed", "nofield"}}
    \cup {[kind |-> "text", text |-> t] : t \in ArgTexts}
ToolCallShapes ==
  {[name |-> n, arguments |-> a] : n \in ToolNames, a \in ToolArgs}
    \cup {[name |-> "deleteResource", arguments |-> [kind |-> "nofield", text |-> NoText]]}
\* call ids are unique within a response
ToolCallLists ==
  UNION {{[i \in 1..n |-> [id |-> i, name |-> l[i].name, arguments |-> l[i].arguments]] :
            l \in [1..n -> ToolCallShapes]} : n \in 1..MaxCalls}

\* what client.chat.completions.create can do: throw, answer without
\* choices[0].message, answer with a text, or answer with tool calls
ModelContents == {NoText, <<>>, <<" ">>, <<" ", "a">>}
ModelOutcomes ==
  {[kind |-> k, content |-> NoText, tool_calls |-> <<>>] : k \in {"throw", "nomsg"}}
    \cup {[kind |-> "msg", content |-> c, tool_calls |-> <<>>] : c \in ModelContents}
    \cup {[kind |-> "msg", content |-> NoText, tool_calls |-> l] : l \in ToolCallLists}
    \cup {[kind |-> "msg", content |-> <<"a">>, tool_calls |-> l] :
            l \in {x \in ToolCallLists : Len(x) = 1}}

\* the answers explored for a call: once a tool was used the handler does
\* not read the tool calls of an answer, one call per answer is enough
ModelOutcomesFor(used) ==
  IF used THEN {m \in ModelOutcomes : Len(m.tool_calls) <= 1} ELSE ModelOutcomes

ModelError == <<"model request failed">>
BadJsonText == <<"Bad JSON">>
NoMessagesText == <<"No messages">>

ChatStartFrom(p, bodies) ==
  /\ pc[p] = "idle"
  /\ task' = [task EXCEPT ![p] = "chat"]
  /\ UNCHANGED <<storeVars, ing, ret, step, toolUsed, calls, callIdx>>
  /\ \E body \in bodies :
       /\ log' = [log EXCEPT ![p].input = body.kind,
                             ![p].history = historyOf(body.messages)]
       /\ CASE body.kind = "badjson" ->
                 /\ pc' = [pc EXCEPT ![p] = "done"]
                 /\ response' = [response EXCEPT ![p] = Respond(400, BadJsonText)]
                 /\ UNCHANGED messages
            [] body.kind = "nomessages" \/ historyOf(body.messages) = <<>> ->
                 /\ pc' = [pc EXCEPT ![p] = "done"]
                 /\ response' = [response EXCEPT ![p] = Respond(400, NoMessagesText)]
                 /\ UNCHANGED messages
            [] OTHER ->
                 /\ pc' = [pc EXCEPT ![p] = "model"]
                 /\ messages' = [messages EXCEPT ![p] =
                                   <<Message("system", SYSTEM_PROMPT)>> \o historyOf(body.messages)]
                 /\ UNCHANGED response

\* tool_choice: toolUsed ? "none" : "auto"
tool_choiceAuto(used) == "auto"
tool_choice(used) == IF used THEN "none" ELSE "auto"

ChatStart(p) == ChatStartFrom(p, ChatBodies)

\* the text of a response without tool calls
finalTextTrimmed(content) ==
  IF content # NoText /\ Len(Trim(content)) > 0 THEN Trim(content) ELSE CannedText

finalText(content) ==
  IF content # NoText /\ Len(Trim(content)) > 0 THEN content ELSE CannedText

Finish(p, st, body) ==
  /\ pc' = [pc EXCEPT ![p] = "done"]
  /\ response' = [response EXCEPT ![p] = Respond(st, body)]
  /\ UNCHANGED <<toolUsed, messages, calls, callIdx>>

\* the outer catch: the model call threw an error with message msg
ModelThrowsEcho(p, msg) == Finish(p, 500, msg)
ModelThrows(p, msg) == Finish(p, 200, ModelFailureText)

\* completion.choices[0]?.message is missing: break, and the return after
\* the loop
NoMessageUnchecked(p) == Finish(p, 200, ModelFailureText)
NoMessage(p) == Finish(p, 200, ExhaustedText)

\* the answer carries no tool call
FinalAnswer(p, content) == Finish(p, 200, finalText(content))

\* if (toolUsed): a further tool-call attempt
RejectedNever(p) == FALSE
RejectedLate(p) == toolUsed[p] /\ step[p] >= 2
Rejected(p) == toolUsed[p]
RefuseWithLastResult(p) == Finish(p, 200, messages[p][Len(messages[p])].content)
Refuse(p) == Finish(p, 200, RefusalText)

\* toolUsed as one flag of the module instead of one per request
AcceptToolCallsSharedFlag(p, m) ==
  /\ messages' = [messages EXCEPT ![p] = Append(@,
       [role |-> "assistant",
        content |-> IF m.content = NoText THEN <<>> ELSE m.content,
        tool_calls |-> m.tool_calls, tool_call_id |-> 0])]
  /\ toolUsed' = [q \in Procs |-> TRUE]
  /\ calls' = [calls EXCEPT ![p] = m.tool_calls]
  /\ callIdx' = [callIdx EXCEPT ![p] = 1]
  /\ pc' = [pc EXCEPT ![p] = "dispatch"]
  /\ UNCHANGED response

AcceptToolCallsNoFlag(p, m) ==
  /\ messages' = [messages EXCEPT ![p] = Append(@,
       [role |-> "assistant",
        content |-> IF m.content = NoText THEN <<>> ELSE m.content,
        tool_calls |-> m.tool_calls, tool_call_id |-> 0])]
  /\ calls' = [calls EXCEPT ![p] = m.tool_calls]
  /\ callIdx' = [callIdx EXCEPT ![p] = 1]
  /\ pc' = [pc EXCEPT ![p] = "dispatch"]
  /\ UNCHANGED <<response, toolUsed>>

\* the answer's tool calls are accepted: the assistant message is pushed,
\* the flag set, and the for-of loop over the calls entered
AcceptToolCalls(p, m) ==
  /\ messages' = [messages EXCEPT ![p] = Append(@,
       [role |-> "assistant",
        content |-> IF m.content = NoText THEN <<>> ELSE m.content,
        tool_calls |-> m.tool_calls, tool_call_id |-> 0])]
  /\ toolUsed' = [toolUsed EXCEPT ![p] = TRUE]
  /\ calls' = [calls EXCEPT ![p] = m.tool_calls]
  /\ callIdx' = [callIdx EXCEPT ![p] = 1]
  /\ pc' = [pc EXCEPT ![p] = "dispatch"]
  /\ UNCHANGED response

\* one pass of the for loop up to the tool dispatch: the model is called
\* with tool_choice and its answer examined
CallModelFrom(p, outcomes) ==
  /\ pc[p] = "model"
  /\ step[p] < MAX_STEPS
  /\ UNCHANGED <<storeVars, task, ing, ret, step>>
  /\ \E m \in outcomes :
       /\ log' = [log EXCEPT
            ![p].modelCalls = @ + 1,
            ![p].sent = Len(messages[p]),
            ![p].toolChoices = Append(@, tool_choice(toolUsed[p])),
            ![p].toolResponses = IF m.tool_calls # <<>>
                                   THEN @ \cup {log[p].modelCalls + 1} ELSE @,
            ![p].last = [kind |-> m.kind,
                         content |-> IF m.tool_calls = <<>> THEN m.content ELSE NoText,
                         tools |-> m.tool_calls # <<>>, toolUsed |-> toolUsed[p]]]
       /\ CASE m.kind = "throw" -> ModelThrows(p, ModelError)
            [] m.kind = "nomsg" -> NoMessage(p)
            [] m.kind = "msg" /\ m.tool_calls = <<>> -> FinalAnswer(p, m.content)
            [] m.kind = "msg" /\ m.tool_calls # <<>> /\ Rejected(p) -> Refuse(p)
            [] OTHER -> AcceptToolCalls(p, m)

CallModel(p) == CallModelFrom(p, ModelOutcomesFor(toolUsed[p]))

\* the bodies and model answers explored for chat requests that overlap:
\* either history, and an answer with a text or with one tool call
OverlapChatBodies == {b \in ChatBodies : b.kind = "messages"}
OverlapToolCalls ==
  {l \in ToolCallLists :
     /\ Len(l) = 1
     /\ l[1].arguments = [kind |-> "text", text |-> <<" ", "a">>]}
OverlapModelOutcomes ==
  {m \in ModelOutcomes :
     /\ m.kind = "msg"
     /\ \/ m.tool_calls = <<>> /\ m.content = <<" ", "a">>
        \/ m.tool_calls \in OverlapToolCalls /\ m.content = NoText}

ChatStartOverlapping(p) == ChatStartFrom(p, OverlapChatBodies)
CallModelOverlapping(p) == CallModelFrom(p, OverlapModelOutcomes)

\* `Unknown tool: ${name}`
UnknownToolUnnamed(name) == <<"Unknown tool: ">>
UnknownTool(name) == <<"Unknown tool: ", name>>

\* one pass of the for-of loop over msg.tool_calls, up to the first await
Dispatch(p) ==
  /\ pc[p] = "dispatch"
  /\ UNCHANGED <<storeVars, task>>
  /\ LET call == calls[p][callIdx[p]]
         lg == [log[p] EXCEPT !.execSteps = @ \cup {log[p].modelCalls},
                              !.dispatched = @ + 1,
                              !.order = Append(@, call.id)]
     IN CASE call.name \in ToolNames /\ call.arguments.kind = "malformed" ->
               /\ PushToolResult(p, ToolError(SyntaxErrorMsg))
               /\ log' = [log EXCEPT ![p] =
                            [lg EXCEPT !.thrown = Caught(p, SyntaxErrorMsg).thrown]]
               /\ UNCHANGED <<ing, ret>>
          [] call.name = "addResource" /\ call.arguments.kind # "malformed" ->
               /\ ing' = [ing EXCEPT ![p] = [NoIng EXCEPT !.content = call.arguments.text]]
               /\ pc' = [pc EXCEPT ![p] = "embed"]
               /\ log' = [log EXCEPT ![p] = [lg EXCEPT !.creates = @ + 1]]
               /\ UNCHANGED <<ret, step, toolUsed, messages, calls, callIdx, response>>
          [] call.name = "getInformation" /\ call.arguments.kind # "malformed" ->
               /\ ret' = [ret EXCEPT ![p] = [NoRet EXCEPT !.question = call.arguments.text,
                                                          !.limit = DEFAULT_LIMIT]]
               /\ pc' = [pc EXCEPT ![p] = "find"]
               /\ log' = [log EXCEPT ![p] = [lg EXCEPT !.finds = @ + 1]]
               /\ UNCHANGED <<ing, step, toolUsed, messages, calls, callIdx, response>>
          [] OTHER ->
               /\ PushToolResult(p, ToolError(UnknownTool(call.name)))
               /\ log' = [log EXCEPT ![p] = lg]
               /\ UNCHANGED <<ing, ret>>

\* ------------------------------------------------------------------- specs
NextRetriever ==
  \E p \in Sequential :
    \/ UploadStart(p)
    \/ CreateEmbed(p)
    \/ InsertResource(p)
    \/ InsertEmbedding(p)
    \/ FindCall(p)
    \/ FindEnter(p)
    \/ FindEmbed(p)
    \/ FindQuery(p)
    \/ FindRerank(p)
    \/ Reset(p)

SpecRetriever == Init /\ [][NextRetriever]_vars

Next ==
  \E p \in Sequential :
    \/ ChatStart(p)
    \/ CallModel(p)
    \/ Dispatch(p)
    \/ CreateEmbed(p)
    \/ InsertResource(p)
    \/ InsertEmbedding(p)
    \/ FindEnter(p)
    \/ FindEmbed(p)
    \/ FindQuery(p)
    \/ FindRerank(p)
    \/ Reset(p)

Spec == Init /\ [][Next]_vars

\* uploads by one handler overlap with retriever requests of another
NextOverlap ==
  \/ \E p \in Ingesters :
       \/ UploadOverlapping(p)
       \/ CreateEmbed(p)
       \/ InsertResource(p)
       \/ InsertEmbedding(p)
       \/ Reset(p)
  \/ \E p \in Retrievers :
       \/ RetrieveStart(p)
       \/ FindEnter(p)
       \/ FindEmbed(p)
       \/ FindQuery(p)
       \/ FindRerank(p)
       \/ Reset(p)

SpecOverlap == Init /\ [][NextOverlap]_vars

\* two chat requests at a time
NextChats ==
  \E p \in Procs :
    \/ ChatStartOverlapping(p)
    \/ CallModelOverlapping(p)
    \/ Dispatch(p)
    \/ CreateEmbed(p)
    \/ InsertResource(p)
    \/ InsertEmbedding(p)
    \/ FindEnter(p)
    \/ FindEmbed(p)
    \/ FindQuery(p)
    \/ FindRerank(p)
    \/ Reset(p)

SpecChats == Init /\ [][NextChats]_vars

\* the same, with collaborators of the retriever that may never answer
NextSilent ==
  \/ NextOverlap
  \/ \E p \in Retrievers : CollaboratorSilent(p)

\* a retriever request goes on whenever the await it stands at is settled
RouteStep(p) ==
  \/ FindEnter(p)
  \/ FindEmbed(p)
  \/ FindQuery(p)
  \/ FindRerank(p)

FairSpecSilent ==
  Init /\ [][NextSilent]_vars /\ \A p \in Retrievers : WF_vars(RouteStep(p))

\* every external call of a request in progress returns or throws
HandlerStep(p) ==
  \/ CallModel(p)
  \/ Dispatch(p)
  \/ CreateEmbed(p)
  \/ InsertResource(p)
  \/ InsertEmbedding(p)
  \/ FindEnter(p)
  \/ FindEmbed(p)
  \/ FindQuery(p)
  \/ FindRerank(p)

FairSpec == Spec /\ \A p \in Procs : WF_vars(HandlerStep(p))

\* ------------------------------------------------------------ properties
Chats == {p \in Procs : task[p] = "chat"}
ToolMessages(p) == {i \in 1..Len(messages[p]) : messages[p][i].role = "tool"}
IsBlank(s) == \A i \in 1..Len(s) : s[i] = " "
Least(S) == CHOOSE x \in S : \A y \in S : x <= y

\* C1: tool calls are dispatched during at most one model response of a
\* request, the first one that carries tool calls; a later response that
\* carries tool calls is answered with the fixed refusal and nothing is
\* dispatched, created or retrieved for it.
C1_SingleToolStep ==
  \A p \in Chats :
    /\ Cardinality(log[p].execSteps) <= 1
    /\ log[p].execSteps # {} => log[p].execSteps = {Least(log[p].toolResponses)}
    /\ (log[p].last.tools /\ log[p].last.toolUsed) =>
         /\ pc[p] = "done"
         /\ response[p] = Respond(200, RefusalText)
         /\ log[p].modelCalls \notin log[p].execSteps
         /\ log[p].finds + log[p].creates <= Len(calls[p])

C1_Witness ==
  \E p \in Chats :
    /\ log[p].last.tools /\ log[p].last.toolUsed
    /\ log[p].finds > 0
    /\ response[p].body = RefusalText

\* C2: once createResourceRaw has returned to the chat handler, the request
\* is over with the response "Saved."; the model is not called again and no
\* further tool call is dispatched.
C2_SavedShortCircuits ==
  \A p \in Chats :
    log[p].saved > 0 =>
      /\ pc[p] = "done"
      /\ response[p] = Respond(200, SavedText)
      /\ log[p].saved = 1
      /\ log[p].modelCalls = log[p].callsAtSave
      /\ log[p].dispatched = log[p].idxAtSave

\* addResource succeeded as the first of two tool calls
C2_Witness ==
  \E p \in Chats :
    /\ log[p].saved = 1
    /\ Len(calls[p]) = 2
    /\ log[p].dispatched = 1
    /\ response[p].body = SavedText

\* C3 as stated: per request at most one tool message is appended and the
\* Retriever is invoked at most once, also when one model response carries
\* several tool calls.
C3_OneGroundingSource ==
  \A p \in Chats : Cardinality(ToolMessages(p)) <= 1 /\ log[p].finds <= 1

\* C3 as amended: the grounding sources of a request all belong to the one
\* accepted tool-calling response: one assistant message with tool calls is
\* appended, and there is at most one tool message and at most one
\* Retriever invocation per tool call of that response.
AcceptedResponses(p) ==
  {i \in 1..Len(messages[p]) : messages[p][i].tool_calls # <<>>}

C3_OneGroundingStep ==
  \A p \in Chats :
    /\ Cardinality(AcceptedResponses(p)) <= 1
    /\ Cardinality(ToolMessages(p)) <= Len(calls[p])
    /\ log[p].finds <= Len(calls[p])
    /\ \A i \in ToolMessages(p) : \A j \in ToolMessages(p) :
         messages[p][i].tool_call_id = messages[p][j].tool_call_id => i = j

\* two getInformation calls of one response were both retrieved
C3_Witness ==
  \E p \in Chats :
    /\ Cardinality(ToolMessages(p)) = 2
    /\ log[p].finds = 2
    /\ log[p].modelCalls = 1

\* the direct calls of findRelevantContent that have returned or thrown
Finds == {p \in Procs : task[p] = "find" /\ pc[p] = "done"}
Matches(results, base) ==
  {i \in 1..Len(results) : \E j \in 1..Len(base) : results[i].id = base[j].id}

\* C4: whatever the corpus and whatever the reranker does, the sequence
\* findRelevantContent returns has at most limit entries.
C4_AtMostLimit ==
  \A p \in Finds : ret[p].returned => Len(ret[p].out) <= ret[p].limit

\* the reranker returned more matching results than limit
C4_Witness ==
  \E p \in Finds :
    /\ ret[p].returned
    /\ ret[p].rr.kind = "results"
    /\ Cardinality(Matches(ret[p].rr.results, ret[p].base)) > ret[p].limit
    /\ Len(ret[p].out) = ret[p].limit

\* C5: when the reranker is unconfigured, has an invalid URL, cannot be
\* reached, answers with an error status or without a results array, or
\* none of its results matches a candidate, findRelevantContent does not
\* throw and returns the first-stage candidates, in ascending distance,
\* cut to limit: the same output for every such failure as for no reranker.
RerankUnavailable(r) ==
  \/ r.rr.kind \in {"unconfigured", "badurl", "unreachable", "notok", "badjson", "noarray"}
  \/ r.rr.kind = "results" /\ Matches(r.rr.results, r.base) = {}

C5_FallbackToFirstStage ==
  \A p \in Finds :
    (ret[p].queryCalls = 1 /\ ret[p].base # <<>> /\ RerankUnavailable(ret[p])) =>
      /\ ret[p].returned /\ ~ret[p].threw
      /\ IsAscending(ret[p].base)
      /\ ret[p].out = SubSeq(ret[p].base, 1, Min(ret[p].limit, Len(ret[p].base)))

\* the reranker could not be reached and the candidates were cut to limit
C5_Witness ==
  \E p \in Finds :
    /\ ret[p].rr.kind = "unreachable"
    /\ Len(ret[p].base) > ret[p].limit
    /\ Len(ret[p].out) = ret[p].limit
    /\ ret[p].out[1] = ret[p].base[1]

\* C6: when at least one id of the reranker's results is the id of a
\* candidate, the output is in descending rerankScore (a missing score
\* counts as 0, as in the comparator), every id of the output is the id of
\* a first-stage candidate and of a reranker result, and results with an
\* unknown id are left out.
C6_RerankedOrder ==
  \A p \in Finds :
    (ret[p].returned /\ ret[p].rr.kind = "results"
       /\ Matches(ret[p].rr.results, ret[p].base) # {}) =>
      LET out == ret[p].out IN
      /\ \A i \in 1..Len(out) : \A j \in 1..Len(out) :
           i < j => OrZero(out[i].rerankScore) >= OrZero(out[j].rerankScore)
      /\ \A i \in 1..Len(out) :
           /\ \E j \in 1..Len(ret[p].base) : out[i].id = ret[p].base[j].id
           /\ \E k \in 1..Len(ret[p].rr.results) : out[i].id = ret[p].rr.results[k].id
      /\ Len(out) = Min(ret[p].limit,
                        Cardinality(Matches(ret[p].rr.results, ret[p].base)))

\* the reranker listed the lower score first and the output has it last
C6_Witness ==
  \E p \in Finds :
    /\ ret[p].returned /\ ret[p].rr.kind = "results"
    /\ Len(ret[p].rr.results) = 2
    /\ ret[p].rr.results[1].rerank_score = Num(-1)
    /\ Len(ret[p].out) = 2
    /\ ret[p].out[1].rerankScore = Num(1)
    /\ ret[p].out[2].rerankScore = Num(-1)

\* C7: for an empty or blank question findRelevantContent returns the empty
\* sequence and calls neither the embedder, nor the store, nor the reranker.
C7_BlankQuestion ==
  \A p \in Finds :
    IsBlank(ret[p].question) =>
      /\ ret[p].returned /\ ~ret[p].threw
      /\ ret[p].out = <<>>
      /\ ret[p].embedCalls = 0 /\ ret[p].queryCalls = 0 /\ ret[p].rerankCalls = 0
      /\ ret[p].rr.kind = "none"

\* a question of blanks only, asked of a store that has chunks
C7_Witness ==
  \E p \in Finds :
    /\ Len(ret[p].question) = 2 /\ IsBlank(ret[p].question)
    /\ ret[p].returned
    /\ embeddings # {}

\* C8: a chat request that passed validation calls the model at most
\* MAX_STEPS times and then has its one response; if the loop ends without
\* a final answer the response is "Unable to produce a final answer.";
\* given that every external call returns or throws, every such request
\* gets its response.
C8_State ==
  \A p \in Chats :
    /\ log[p].modelCalls <= MAX_STEPS
    /\ step[p] <= MAX_STEPS
    /\ (pc[p] = "done") <=> (response[p] # NoResponse)
    /\ (pc[p] = "done" /\ (log[p].last.kind = "nomsg" \/ step[p] = MAX_STEPS)) =>
         response[p] = Respond(200, ExhaustedText)

C8_Terminates ==
  /\ []C8_State
  /\ \A p \in Procs : (pc[p] = "model") ~> (pc[p] = "done")

\* getInformation found nothing and the second model call ended the request
C8_Witness ==
  \E p \in Chats :
    /\ pc[p] = "done"
    /\ log[p].modelCalls = 2
    /\ \E i \in ToolMessages(p) : messages[p][i].content = Stringify(ToolOk(<<>>))
    /\ log[p].finds = 1

\* C9: when a model call throws, the request is over at once with the fixed
\* apology as a 200 response; the body is not the error's message.
C9_ModelFailure ==
  \A p \in Chats :
    log[p].last.kind = "throw" =>
      /\ pc[p] = "done"
      /\ response[p] = Respond(200, ModelFailureText)
      /\ response[p].body # ModelError
      /\ Len(log[p].toolChoices) = log[p].modelCalls

\* the second model call, after a tool was used, threw
C9_Witness ==
  \E p \in Chats :
    /\ log[p].last.kind = "throw"
    /\ log[p].modelCalls = 2
    /\ Cardinality(ToolMessages(p)) > 0
    /\ response[p].body = ModelFailureText

\* C10: a model answer without tool calls ends the request with the
\* answer's content as it is, or with the canned sentence when the content
\* is missing, empty or blank, before and after a tool was used.
C10_FinalAnswer ==
  \A p \in Chats :
    (log[p].last.kind = "msg" /\ ~log[p].last.tools) =>
      /\ pc[p] = "done"
      /\ response[p] =
           Respond(200, IF log[p].last.content = NoText \/ IsBlank(log[p].last.content)
                          THEN CannedText ELSE log[p].last.content)

\* after a tool was used the model answered with a text that starts with a
\* blank, and the response has the blank
C10_Witness ==
  \E p \in Chats :
    /\ log[p].last.kind = "msg" /\ ~log[p].last.tools
    /\ log[p].last.toolUsed
    /\ response[p].body = <<" ", "a">>

\* the tool messages that carry the error result of a caught exception
ErrorResults(p, t) ==
  {i \in ToolMessages(p) :
     /\ messages[p][i].tool_call_id = t.id
     /\ messages[p][i].content = Stringify(ToolError(t.msg))}

\* C11 as stated: every exception raised while a tool call is dispatched is
\* caught and becomes the tool message {ok: false, error: message} of that
\* call, the request does not end with the model-failure apology because of
\* it, and by the end of the request the model was called again with that
\* tool message in the conversation.
C11_ErrorFedBack ==
  \A p \in Chats : \A k \in 1..Len(log[p].thrown) :
    /\ ErrorResults(p, log[p].thrown[k]) # {}
    /\ (pc[p] = "done" /\ response[p].body = ModelFailureText) => log[p].last.kind = "throw"
    /\ pc[p] = "done" =>
         /\ log[p].modelCalls >= 2
         /\ \A i \in ErrorResults(p, log[p].thrown[k]) : i <= log[p].sent

\* C11 as amended: the exception becomes the error tool message of its call
\* and never the model-failure apology; the model is called again with that
\* message in the conversation unless a later addResource call of the same
\* response succeeds, which ends the request with "Saved.".
C11_ErrorContained ==
  \A p \in Chats : \A k \in 1..Len(log[p].thrown) :
    /\ ErrorResults(p, log[p].thrown[k]) # {}
    /\ (pc[p] = "done" /\ response[p].body = ModelFailureText) => log[p].last.kind = "throw"
    /\ pc[p] = "model" => step[p] < MAX_STEPS
    /\ pc[p] = "done" =>
         \/ log[p].saved = 1 /\ response[p] = Respond(200, SavedText)
         \/ /\ log[p].modelCalls >= 2
            /\ \A i \in ErrorResults(p, log[p].thrown[k]) : i <= log[p].sent

\* the store failed under a tool call and the model answered the second call
C11_Witness ==
  \E p \in Chats :
    /\ \E k \in 1..Len(log[p].thrown) : log[p].thrown[k].msg = StoreError
    /\ log[p].modelCalls = 2
    /\ pc[p] = "done"
    /\ log[p].last.kind = "msg" /\ ~log[p].last.tools

\* the calls of the accepted response dispatched so far, in order
Dispatched(p) == 1..Min(log[p].dispatched, Len(calls[p]))
UnknownCalls(p) == {k \in Dispatched(p) : calls[p][k].name \notin ToolNames}
UnknownResults(p, k) ==
  {i \in ToolMessages(p) :
     /\ messages[p][i].tool_call_id = calls[p][k].id
     /\ messages[p][i].content =
          <<"{", [ok |-> FALSE, chunks |-> <<>>,
                  error |-> <<"Unknown tool: ", calls[p][k].name>>], "}">>}

\* C12 as stated: a tool call with an unknown name starts no ingestion and
\* no retrieval (so no embedder or store call), its tool message is
\* {ok: false, error: "Unknown tool: <name>"}, nothing is raised, and by the
\* end of the request the model was called again with that message.
C12_UnknownToolFedBack ==
  \A p \in Chats :
    /\ log[p].finds + log[p].creates
         <= Cardinality({k \in Dispatched(p) : calls[p][k].name \in ToolNames})
    /\ \A k \in UnknownCalls(p) :
         /\ UnknownResults(p, k) # {}
         /\ pc[p] = "done" /\ response[p].body = ModelFailureText => log[p].last.kind = "throw"
         /\ pc[p] = "done" =>
              /\ log[p].modelCalls >= 2
              /\ \A i \in UnknownResults(p, k) : i <= log[p].sent

\* C12 as amended: the same, except that the model is called again with the
\* message unless a later addResource call of the same response succeeds,
\* which ends the request with "Saved.".
C12_UnknownToolResult ==
  \A p \in Chats :
    /\ log[p].finds + log[p].creates
         <= Cardinality({k \in Dispatched(p) : calls[p][k].name \in ToolNames})
    /\ \A k \in UnknownCalls(p) :
         /\ UnknownResults(p, k) # {}
         /\ pc[p] = "done" /\ response[p].body = ModelFailureText => log[p].last.kind = "throw"
         /\ pc[p] = "model" => step[p] < MAX_STEPS
         /\ pc[p] = "done" =>
              \/ log[p].saved = 1 /\ response[p] = Respond(200, SavedText)
              \/ /\ log[p].modelCalls >= 2
                 /\ \A i \in UnknownResults(p, k) : i <= log[p].sent

\* the only call of the response had an unknown name and the model answered
\* the second call with a text
C12_Witness ==
  \E p \in Chats :
    /\ Len(calls[p]) = 1 /\ calls[p][1].name = "deleteResource"
    /\ log[p].finds + log[p].creates = 0
    /\ log[p].modelCalls = 2
    /\ pc[p] = "done" /\ response[p].body = <<" ", "a">>

\* the query of a request that got past the parsing of its body: the text of
\* the last user message of the history
UserMessages(p) == {i \in 1..Len(messages[p]) : messages[p][i].role = "user"}
UserQuery(p) ==
  messages[p][CHOOSE i \in UserMessages(p) : \A j \in UserMessages(p) : j <= i].content

\* C13: a chat request whose body is not JSON, has no messages, or has an
\* empty user query is rejected with status 400 and makes no model call and
\* no tool call.
C13_InputRejected ==
  \A p \in Chats :
    (\/ log[p].input \in {"badjson", "nomessages"}
     \/ log[p].input = "messages" /\ UserMessages(p) # {} /\ UserQuery(p) = <<>>) =>
      /\ pc[p] = "done"
      /\ response[p].status = 400
      /\ log[p].modelCalls = 0 /\ log[p].dispatched = 0

EmbeddingsOf(r) == {e \in embeddings : e.resourceId = r.id}

\* C14: in every state of the store, whatever createResourceRaw calls have
\* run or are running and whatever failed in them, every row of resources
\* has exactly one row of embeddings and every row of embeddings references
\* a row of resources.
C14_ChunkHasEmbedding ==
  /\ \A r \in resources : Cardinality(EmbeddingsOf(r)) = 1
  /\ \A e \in embeddings : \E r \in resources : r.id = e.resourceId

\* the findRelevantContent calls that have returned, direct or by the route
Returned == {p \in Procs : task[p] \in {"find", "retrieve"} /\ pc[p] = "done" /\ ret[p].returned}

\* C15: a chunk without a row of embeddings, be it that its second insert
\* failed or that an ingestion running at the same time has not made it
\* yet, is not in the output of findRelevantContent: no id of the output
\* was without embedding when the first-stage query ran, and none is now.
C15_OrphanNotReturned ==
  \A p \in Returned : \A i \in 1..Len(ret[p].out) :
    /\ ret[p].out[i].id \notin ret[p].orphans
    /\ \A r \in Unembedded(resources, embeddings) : r.id # ret[p].out[i].id

\* the query ran between the two inserts of an upload that is still there,
\* the reranker named the chunk, and another chunk was returned
C15_Witness ==
  \E p \in Returned : \E q \in Procs :
    /\ pc[q] = "insertEmbedding"
    /\ ing[q].resourceId \in ret[p].orphans
    /\ ret[p].rr.kind = "results"
    /\ \E k \in 1..Len(ret[p].rr.results) : ret[p].rr.results[k].id = ing[q].resourceId
    /\ ret[p].out # <<>>

\* the reranker results that revise the content of chunk id
Revisions(r, id) ==
  IF r.rr.kind # "results" THEN {}
  ELSE {k \in 1..Len(r.rr.results) :
          r.rr.results[k].id = id /\ r.rr.results[k].content # NoText}

\* C16 as stated: every entry of the output of findRelevantContent has the
\* id of a stored chunk and that chunk's stored content, whatever the
\* reranker answered.
C16_StoredContent ==
  \A p \in Finds : ret[p].returned =>
    \A i \in 1..Len(ret[p].out) :
      \E r \in resources : r.id = ret[p].out[i].id /\ r.content = ret[p].out[i].content

\* C16 as amended: every entry of the output has the id of a stored chunk
\* that has an embedding; its content is that chunk's stored content unless
\* the reranker's results carry a content for that id, and then it is a
\* content the reranker gave for that id.
C16_GroundedInChunk ==
  \A p \in Finds : ret[p].returned =>
    \A i \in 1..Len(ret[p].out) :
      \E r \in resources :
        /\ r.id = ret[p].out[i].id
        /\ r \notin Unembedded(resources, embeddings)
        /\ IF Revisions(ret[p], r.id) = {}
             THEN ret[p].out[i].content = r.content
             ELSE \/ ret[p].out[i].content = r.content
                  \/ \E k \in Revisions(ret[p], r.id) :
                       ret[p].out[i].content = ret[p].rr.results[k].content

\* the reranker revised the content of a chunk and the output carries the
\* revised content, not the stored one
C16_Witness ==
  \E p \in Finds :
    /\ ret[p].returned
    /\ \E i \in 1..Len(ret[p].out) : \E r \in resources :
         /\ r.id = ret[p].out[i].id
         /\ ret[p].out[i].content = RevisedContent
         /\ r.content # RevisedContent

\* the chat requests that passed the validation of the body and have their
\* response
Answered == {p \in Chats : pc[p] = "done" /\ messages[p] # <<>>}
FixedTexts == {CannedText, SavedText, RefusalText, ExhaustedText, ModelFailureText}

\* C17: the response to a chat request that passed validation has status
\* 200 and its body is the text of the model's last answer or one of the
\* five fixed sentences; it is never the serialized result of a tool call,
\* also after a second tool-call attempt or a call of an unknown tool.
C17_PlainTextResponse ==
  \A p \in Answered :
    /\ response[p].status = 200
    /\ \/ response[p].body \in FixedTexts
       \/ /\ log[p].last.kind = "msg" /\ ~log[p].last.tools
          /\ response[p].body = log[p].last.content
    /\ \A i \in ToolMessages(p) : response[p].body # messages[p][i].content

\* a call of an unknown tool was answered with its error result, and the
\* second tool-call attempt with the refusal
C17_Witness ==
  \E p \in Answered :
    /\ UnknownCalls(p) # {}
    /\ log[p].last.tools /\ log[p].last.toolUsed
    /\ response[p] = Respond(200, RefusalText)

\* the ids of the first n calls of the accepted response, in the order given
CallIds(p, n) == [k \in 1..n |-> calls[p][k].id]

\* C18 as stated: the calls of the accepted tool-calling response are
\* dispatched in the order given, and all of them have been dispatched when
\* the model is called again or the request ends.
C18_EachCallDispatched ==
  \A p \in Chats :
    /\ Len(log[p].order) <= Len(calls[p])
    /\ log[p].order = CallIds(p, Len(log[p].order))
    /\ (toolUsed[p] /\ pc[p] \in {"model", "done"}) => Len(log[p].order) = Len(calls[p])

\* C18 as amended: the calls are dispatched in the order given; all of them
\* have been dispatched when the model is called again, and when the
\* request ends, unless an addResource call succeeded: it ends the request
\* with "Saved." and the calls behind it are not dispatched.
C18_DispatchedInOrder ==
  \A p \in Chats :
    /\ Len(log[p].order) <= Len(calls[p])
    /\ log[p].order = CallIds(p, Len(log[p].order))
    /\ (toolUsed[p] /\ pc[p] = "model") => Len(log[p].order) = Len(calls[p])
    /\ log[p].modelCalls >= 2 => Len(log[p].order) = Len(calls[p])
    /\ (toolUsed[p] /\ pc[p] = "done") =>
         \/ Len(log[p].order) = Len(calls[p])
         \/ /\ log[p].saved = 1 /\ response[p] = Respond(200, SavedText)
            /\ calls[p][Len(log[p].order)].name = "addResource"
            /\ log[p].modelCalls = 1

\* both calls of a response were dispatched, then the model was called again
C18_Witness ==
  \E p \in Chats :
    /\ Len(calls[p]) = 2
    /\ log[p].order = <<calls[p][1].id, calls[p][2].id>>
    /\ calls[p][1].name # calls[p][2].name
    /\ log[p].modelCalls = 2

\* the tool_choice of the k-th model call as C19 has it: "none" once an
\* earlier answer with tool calls was accepted
ExpectedChoice(p, k) ==
  IF log[p].toolResponses # {} /\ k > Least(log[p].toolResponses) THEN "none" ELSE "auto"

C19_State ==
  \A p \in Chats :
    /\ Len(log[p].toolChoices) = log[p].modelCalls
    /\ \A k \in 1..Len(log[p].toolChoices) : log[p].toolChoices[k] = ExpectedChoice(p, k)
    /\ toolUsed[p] <=> AcceptedResponses(p) # {}
    /\ log[p].modelCalls = 0 => ~toolUsed[p]

\* within a request the flag is set in the step that accepts an answer with
\* tool calls and in no other, and is not cleared
C19_Step ==
  \A p \in Procs :
    (task[p] = "chat" /\ pc[p] # "done") =>
      /\ toolUsed[p] => toolUsed'[p]
      /\ (~toolUsed[p] /\ toolUsed'[p]) <=>
           (pc[p] = "model" /\ pc'[p] = "dispatch"
              /\ Len(messages'[p]) = Len(messages[p]) + 1
              /\ messages'[p][Len(messages'[p])].tool_calls # <<>>)

\* C19: every model call of a chat request carries tool_choice "auto" when
\* no tool was used before it in the request and "none" when one was;
\* toolUsed is false at the start, becomes true exactly in the step that
\* accepts an answer with tool calls, and stays true for the rest of the
\* request.
C19_ToolChoice == []C19_State /\ [][C19_Step]_vars

\* the second model call of a request, made after a tool call, had "none"
C19_Witness ==
  \E p \in Chats :
    /\ log[p].toolChoices = <<"auto", "none">>
    /\ toolUsed[p]
    /\ log[p].dispatched > 0

\* the findRelevantContent calls that got to the first-stage query
Queried == {p \in Procs : task[p] \in {"find", "retrieve"} /\ ret[p].queryCalls = 1}

\* C20 as stated: for every positive integer limit the first-stage query
\* asks for limit x 5 rows clamped to [limit, 50]: never fewer than limit
\* and never more than 50.
C20_ClampedToLimitAnd50 ==
  \A p \in Queried :
    /\ ret[p].requested >= ret[p].limit
    /\ ret[p].requested <= 50
    /\ ret[p].requested = Min(Max(ret[p].limit * 5, ret[p].limit), 50)

\* C20 as amended: the first-stage query asks for limit x 5 rows but never
\* for more than 50; that is at least limit when limit is at most 50, and
\* it is 50, fewer than limit, when limit is above 50.
C20_CappedAt50 ==
  \A p \in Queried :
    /\ ret[p].requested <= 50
    /\ ret[p].requested = IF ret[p].limit * 5 <= 50 THEN ret[p].limit * 5 ELSE 50
    /\ ret[p].limit <= 50 => ret[p].requested >= ret[p].limit
    /\ ret[p].limit > 50 => ret[p].requested = 50 /\ ret[p].requested < ret[p].limit

\* a retriever request with limit 51 asked the store for 50 rows
C20_Witness ==
  \E p \in Queried :
    /\ task[p] = "retrieve"
    /\ ret[p].limit = 51
    /\ ret[p].requested = 50

\* C21: every external call of a retrieval (embedder, store query, reranker
\* POST) is bounded by a timeout: a retriever request whose collaborator
\* never answers still gets its response, and that response is an error of
\* its own kind, not the generic "Retriever query failed".
C21_TimeoutBounded ==
  \A p \in Procs :
    (task[p] = "retrieve" /\ ret[p].silent) ~>
      (pc[p] = "done" /\ response[p].status >= 400 /\ response[p].body # RetrieverFailed)

\* what the handler keeps per request
RequestState(p) == <<step[p], toolUsed[p], messages[p], calls[p], callIdx[p]>>

\* the conversation of a request is the system prompt, the request's own
\* history, and the assistant and tool messages of its own tool calls
OwnConversation(p) ==
  LET head == <<Message("system", SYSTEM_PROMPT)>> \o log[p].history
      n == Len(head)
  IN /\ Len(messages[p]) >= n
     /\ SubSeq(messages[p], 1, n) = head
     /\ \A i \in (n + 1)..Len(messages[p]) :
          \/ i = n + 1 /\ messages[p][i].role = "assistant"
                       /\ messages[p][i].tool_calls = calls[p]
          \/ i > n + 1 /\ messages[p][i].role = "tool"
                       /\ messages[p][i].tool_call_id = calls[p][i - n - 1].id

C22_State ==
  \A p \in Chats :
    /\ messages[p] # <<>> => OwnConversation(p)
    /\ toolUsed[p] <=> AcceptedResponses(p) # {}
    /\ (pc[p] = "done" /\ response[p].body = RefusalText) =>
         /\ AcceptedResponses(p) # {}
         /\ Least(log[p].toolResponses) < log[p].modelCalls

C22_Step ==
  \A p \in Procs : \A q \in Procs \ {p} :
    ~(RequestState(p)' # RequestState(p) /\ RequestState(q)' # RequestState(q))

\* C22: chat requests in progress at the same time share nothing but the
\* store: a step changes the flag, the counter and the messages of one
\* request only, a tool call is refused only after a tool call of the same
\* request was accepted, and the conversation of a request holds its own
\* history and its own tool messages only.
C22_RequestsIndependent == []C22_State /\ [][C22_Step]_vars

\* two requests with different histories are in progress and each had its
\* first tool call accepted
C22_Witness ==
  /\ \A p \in Procs : task[p] = "chat" /\ pc[p] # "done" /\ toolUsed[p]
  /\ log[1].history # log[2].history
  /\ log[1].modelCalls = 1 /\ log[2].modelCalls = 1

\* C23: when the first-stage query of findRelevantContent answers with zero
\* rows (no chunk of the store has an embedding), the call returns the
\* empty sequence, does not throw, and callReranker is not called.
C23_ZeroRows ==
  \A p \in Finds :
    (/\ ret[p].queryCalls = 1
     /\ ret[p].error # StoreError
     /\ JoinedRows(resources, embeddings, ret[p].vector) = {}) =>
      /\ ret[p].returned /\ ~ret[p].threw
      /\ ret[p].out = <<>>
      /\ ret[p].rerankCalls = 0
      /\ ret[p].rr.kind = "none"

\* limit 2 asked of a store whose only chunk has no embedding
C23_Witness ==
  \E p \in Finds :
    /\ ret[p].queryCalls = 1 /\ ret[p].returned
    /\ ret[p].limit = 2
    /\ resources # {} /\ embeddings = {}
    /\ ret[p].out = <<>>

\* C24: when findRelevantContent is given a non-empty question and the
\* embeddings API answers without a vector or with a vector of length zero,
\* the call throws "Failed to generate embedding for query" after a single
\* embedding request, and neither the first-stage query nor the reranker
\* is called.
C24_NoVectorFails ==
  \A p \in Finds :
    (~IsBlank(ret[p].question) /\ ret[p].embedded \in {"none", "empty"}) =>
      /\ ret[p].threw /\ ~ret[p].returned
      /\ ret[p].error = <<"Failed to generate embedding for query">>
      /\ ret[p].embedCalls = 1
      /\ ret[p].queryCalls = 0
      /\ ret[p].rerankCalls = 0 /\ ret[p].rr.kind = "none"

\* a zero-length vector for a question asked of a store that holds an
\* embedded chunk
C24_Witness ==
  \E p \in Finds :
    /\ ~IsBlank(ret[p].question)
    /\ ret[p].embedded = "empty"
    /\ ret[p].threw
    /\ embeddings # {}

\* the messages of handler p after the system prompt and the history
Opening(p) == <<Message("system", SYSTEM_PROMPT)>> \o log[p].history
Appended(p) == SubSeq(messages[p], Len(Opening(p)) + 1, Len(messages[p]))

C25_State ==
  \A p \in Chats : messages[p] # <<>> =>
    /\ Len(messages[p]) >= Len(Opening(p))
    /\ SubSeq(messages[p], 1, Len(Opening(p))) = Opening(p)
    /\ Appended(p) # <<>> =>
         /\ Appended(p)[1].role = "assistant" /\ Appended(p)[1].tool_calls = calls[p]
         /\ Len(Appended(p)) - 1 <= Len(calls[p])
         /\ Len(Appended(p)) - 1 \in {Len(log[p].order) - 1, Len(log[p].order)}
         /\ \A k \in 1..(Len(Appended(p)) - 1) :
              /\ Appended(p)[k + 1].role = "tool"
              /\ Appended(p)[k + 1].tool_call_id = calls[p][k].id
              /\ log[p].order[k] = calls[p][k].id
    /\ log[p].modelCalls = 1 => log[p].sent = Len(Opening(p))
    /\ log[p].modelCalls >= 2 =>
         /\ log[p].sent = Len(Opening(p)) + 1 + Len(calls[p])
         /\ Len(messages[p]) = log[p].sent

C25_Step ==
  \A p \in Procs : pc[p] \notin {"idle", "done"} =>
    /\ Len(messages[p]') >= Len(messages[p])
    /\ Len(messages[p]') <= Len(messages[p]) + 1
    /\ SubSeq(messages[p]', 1, Len(messages[p])) = messages[p]

\* C25: during a chat request the message list only grows, one message at
\* a time at its end; it is the system prompt, then the request's history
\* in order, then (once a tool-calling response was accepted) the
\* assistant message with the tool calls and one tool message per call
\* whose dispatch ended, in call order and tagged with the id of that call;
\* the first model call is sent the prompt and the history, the second one
\* the list with the tool messages of all calls.
C25_AppendOnly == []C25_State /\ [][C25_Step]_vars

\* the model was called a second time after a response with two tool calls
C25_Witness ==
  \E p \in Chats :
    /\ log[p].modelCalls = 2
    /\ Len(calls[p]) = 2 /\ calls[p][1].id # calls[p][2].id
    /\ Len(log[p].history) = 2
    /\ Len(messages[p]) = 6
    /\ log[p].sent = 6

\* the calls whose output is the reranker's merged list
Reranked ==
  {p \in Finds : /\ ret[p].returned /\ ret[p].rr.kind = "results"
                 /\ Matches(ret[p].rr.results, ret[p].base) # {}}
ScoreOf(c) == IF c.rerankScore = NoNum THEN 0 ELSE c.rerankScore[1]
PlaceIn(id, base) == CHOOSE i \in 1..Len(base) : base[i].id = id

\* C26: two entries of the output with equal rerankScore stand in
\* the order their chunks had in the first-stage candidate list.
C26_TiesInFirstStageOrder ==
  \A p \in Reranked :
    \A i, j \in 1..Len(ret[p].out) :
      (/\ i < j
       /\ ScoreOf(ret[p].out[i]) = ScoreOf(ret[p].out[j])
       /\ ret[p].out[i].id # ret[p].out[j].id) =>
        PlaceIn(ret[p].out[i].id, ret[p].base) < PlaceIn(ret[p].out[j].id, ret[p].base)

\* C27: a chat request calls the model at most twice.  The loop counter
\* never passes 1, so a third pass does not begin; the second call is made
\* after an accepted tool-calling response and ends the request with the
\* answer's text, the refusal, the failure sentence or the sentence for a
\* missing message; and "Unable to produce a final answer." is the
\* response only when the last model response carried no message.
C27_AtMostTwoModelCalls ==
  \A p \in Chats :
    /\ log[p].modelCalls <= 2
    /\ step[p] <= 1
    /\ log[p].modelCalls = 2 =>
         /\ toolUsed[p] /\ Cardinality(AcceptedResponses(p)) = 1
         /\ pc[p] = "done"
         /\ log[p].last.kind \in {"msg", "throw", "nomsg"}
         /\ log[p].last.kind = "throw" =>
              response[p].body =
                <<"I'm sorry, I'm temporarily unable to answer your request.">>
         /\ (log[p].last.kind = "msg" /\ log[p].last.tools) =>
              response[p].body =
                <<"Unable to provide additional tool output at this time.">>
    /\ (pc[p] = "done"
          /\ response[p].body = <<"Unable to produce a final answer.">>) =>
         log[p].last.kind = "nomsg"

\* the second model response, after the tool results, carries no message
C27_Witness ==
  \E p \in Chats :
    /\ pc[p] = "done"
    /\ log[p].modelCalls = 2 /\ toolUsed[p]
    /\ ToolMessages(p) # {}
    /\ log[p].last.kind = "nomsg"
    /\ response[p].body = <<"Unable to produce a final answer.">>

\* the exceptions createResourceRaw raised under the addResource calls of
\* handler p, as places of log[p].thrown
IngestionThrows(p) ==
  {k \in 1..Len(log[p].thrown) :
     /\ log[p].thrown[k].msg # SyntaxErrorMsg
     /\ \E c \in 1..Len(calls[p]) :
          calls[p][c].id = log[p].thrown[k].id /\ calls[p][c].name = "addResource"}
CallPlace(p, id) == CHOOSE c \in 1..Len(calls[p]) : calls[p][c].id = id
SavedBoth(p) ==
  /\ log[p].saved = 1
  /\ calls[p][log[p].idxAtSave].name = "addResource"
  /\ \E r \in resources :
       /\ r.id = log[p].savedId
       /\ r.content = Trim(calls[p][log[p].idxAtSave].arguments.text)
  /\ Cardinality({e \in embeddings : e.resourceId = log[p].savedId}) = 1

\* C28: the response is "Saved." only if createResourceRaw returned in the
\* request with the chunk row and its embedding row in the store; and if
\* createResourceRaw throws, the response is not "Saved." and the model is
\* called again with the error result in the conversation.
C28_SavedOnlyIfIngested ==
  \A p \in Chats : pc[p] = "done" =>
    /\ response[p].body = <<"Saved.">> => SavedBoth(p)
    /\ \A k \in IngestionThrows(p) :
         /\ response[p].body # <<"Saved.">>
         /\ log[p].modelCalls >= 2
         /\ ErrorResults(p, log[p].thrown[k]) # {}
         /\ \A i \in ErrorResults(p, log[p].thrown[k]) : i <= log[p].sent

\* C28, amended: the response is "Saved." only if createResourceRaw
\* returned in the request with the chunk row and its embedding row in the
\* store; a call under which createResourceRaw throws is not the call that
\* answers "Saved.": it gets the error result as its tool message, and the
\* model is called again with it unless a later addResource call of the
\* same response is stored, which ends the request with "Saved.".
C28_SavedByStoredCall ==
  \A p \in Chats : pc[p] = "done" =>
    /\ response[p].body = <<"Saved.">> => SavedBoth(p)
    /\ \A k \in IngestionThrows(p) :
         /\ ErrorResults(p, log[p].thrown[k]) # {}
         /\ \/ /\ response[p].body = <<"Saved.">>
               /\ log[p].modelCalls = 1
               /\ log[p].idxAtSave > CallPlace(p, log[p].thrown[k].id)
            \/ /\ response[p].body # <<"Saved.">>
               /\ log[p].modelCalls >= 2
               /\ \A i \in ErrorResults(p, log[p].thrown[k]) : i <= log[p].sent

\* createResourceRaw threw under the first addResource call and stored the
\* chunk of the second one
C28_Witness ==
  \E p \in Chats :
    /\ pc[p] = "done" /\ response[p].body = <<"Saved.">>
    /\ IngestionThrows(p) # {}
    /\ log[p].idxAtSave = 2
    /\ SavedBoth(p)

\* the errors createResourceRaw raises before it writes
EarlyErrors ==
  {<<"Cannot read properties of undefined (reading 'trim')">>,
   <<"Content is required to create a resource">>,
   <<"embeddings request failed">>,
   <<"Failed to generate embedding for resource">>}
Raised(p) ==
  IF task[p] = "chat"
    THEN /\ Len(log[p].thrown') = Len(log[p].thrown) + 1
         /\ log[p].thrown'[Len(log[p].thrown')].msg \in EarlyErrors
    ELSE /\ pc[p]' = "done"
         /\ response[p]'.status = 500 /\ response[p]'.body \in EarlyErrors

C29_Step ==
  \A p \in Procs : (pc[p] = "embed" /\ pc[p]' # "embed") =>
    /\ resources' = resources /\ embeddings' = embeddings /\ nextId' = nextId
    /\ (ing[p].content = NoText \/ IsBlank(ing[p].content)) =>
         pc[p]' # "insertResource"
    /\ pc[p]' # "insertResource" => Raised(p)
    /\ pc[p]' = "insertResource" =>
         /\ ing[p]'.embedded = "vec"
         /\ ing[p]'.content = Trim(ing[p].content) /\ ing[p]'.content # <<>>

\* C29: createResourceRaw asks for the embedding before it writes: with a
\* content that is absent, empty or blank, or an embeddings API that fails
\* or answers without a vector or with an empty one, it throws and the
\* store is as it was; it goes on to the first insert only with a trimmed
\* non-empty content and a vector, and has written nothing until then.
C29_EmbedBeforePersist == [][C29_Step]_vars

\* an upload failed for want of a vector and the store is still empty
C29_Witness ==
  \E p \in Procs :
    /\ task[p] = "upload" /\ pc[p] = "done"
    /\ response[p].status = 500
    /\ response[p].body = <<"Failed to generate embedding for resource">>
    /\ resources = {} /\ embeddings = {}

\* C30: no two entries of the sequence findRelevantContent returns have
\* the same chunk id, whatever the store holds and whatever the reranker
\* answers, an answer that names an id twice included.
C30_NoIdTwice ==
  \A p \in Finds : ret[p].returned =>
    \A i, j \in 1..Len(ret[p].out) :
      ret[p].out[i].id = ret[p].out[j].id => i = j

====
